---- MODULE Spec2Model ----
(***************************************************************************)
(* Model of package zerolog_wrapper (src/zerolog_wrapper.go): a process-   *)
(* wide zerolog.Logger that InitLog configures under a sync.Once, that     *)
(* UpdateContext mutates and that the level-scoped entry points read.      *)
(*                                                                         *)
(* Goroutines are interleaved at the granularity of the statements of      *)
(* InitLog / getLocalIP and of the reads and writes of the package-level   *)
(* variable Logger.  The package variable is read and written without any  *)
(* lock outside once.Do, so a read that overlaps the assignment of line    *)
(* 122 may see any mix of the old and the new fields, and a read-modify-   *)
(* write of the context (UpdateContext) is two steps.                      *)
(*                                                                         *)
(* The logging engine is not part of the package and the package does not  *)
(* pin its version.  Engines differ in what a Logger without writer (the   *)
(* zero value of line 65) does with an event: refuse it, running the hook  *)
(* of a fatal or panic event at once, or build it.  nilWriterGuard is      *)
(* fixed in the initial state and stands for the engine that was linked.   *)
(*                                                                         *)
(* Five specifications share the actions: Spec (goroutines calling         *)
(* InitLog with every input), SpecEmit (InitLog and the entry points),     *)
(* SpecCtx (InitLog with few inputs, UpdateContext and the entry points),  *)
(* SpecLevels (entry points below, at and above the level of the Logger)   *)
(* and SpecCwd (a program that changes its working directory).             *)
(***************************************************************************)
EXTENDS Integers, FiniteSets, Sequences, TLC

\* ---------------------------------------------------------------- bounds
NumGoroutines == 2
MaxCalls == 4

Goroutines == 1..NumGoroutines

\* ------------------------------------------------- constants of the code
\* type LogLevel string (lines 42-52)
TraceLevel == "trace"
DebugLevel == "debug"
InfoLevel == "info"
WarnLevel == "warn"
ErrorLevel == "error"
FatalLevel == "fatal"
PanicLevel == "panic"

LevelTags == {TraceLevel, DebugLevel, InfoLevel, WarnLevel, ErrorLevel, FatalLevel, PanicLevel}

\* type Env string (lines 54-61)
Prod == "prod"
Stage == "stage"
QA == "qa"
Dev == "dev"

\* zerolog.Level values named by the switch of lines 83-100
ZTraceLevel == -1
ZDebugLevel == 0
ZInfoLevel == 1
ZWarnLevel == 2
ZErrorLevel == 3
ZFatalLevel == 4
ZPanicLevel == 5

ZLevels == {ZTraceLevel, ZDebugLevel, ZInfoLevel, ZWarnLevel, ZErrorLevel, ZFatalLevel, ZPanicLevel}

\* the writers InitLog chooses between (lines 102-111); NilWriter is the
\* writer of the zero-valued Logger of line 65
NilWriter == "nil"
StderrWriter == "stderr"
ConsoleStdoutWriter == "console(stdout)"

\* ------------------------------------------------------ inputs (bounded)
\* every recognised tag plus strings the switch does not know
LevelInputs == LevelTags \cup {"verbose"}
EnvInputs == {Prod, Stage, QA, Dev, "local"}
\* the (level, env) arguments InitLog is called with: every level in prod
\* and in dev, a known and an unknown level in the other environments
InitInputs ==
  {<<l, e>> : l \in LevelInputs, e \in {Prod, Dev}}
    \cup {<<l, e>> : l \in {WarnLevel, "verbose"}, e \in EnvInputs}
\* what net.Dial can report: a local address, or an error
DialResults == {"10.0.0.5", "error"}
\* the smaller inputs of the specification that exercises UpdateContext
CtxInitInputs == {<<InfoLevel, Prod>>, <<ErrorLevel, Dev>>}
\* the event level of the specification that pairs every InitLog input
\* with the entry points: panic passes the filter of every level
EmitEventLevels == {ZPanicLevel}
\* the event level of the specification that exercises UpdateContext
CtxEventLevels == {ZErrorLevel}
\* the InitLog arguments paired with the entry points: the lowest, the
\* highest and an unknown level in prod, an unknown level in the other
\* environments, and one call in dev
EmitInitInputs ==
  {<<l, Prod>> : l \in {TraceLevel, PanicLevel, "verbose"}}
    \cup {<<"verbose", e>> : e \in {Stage, QA, "local"}} \cup {<<WarnLevel, Dev>>}
\* the keys that UpdateContext mutators add
Fields == {"a", "b"}
\* paths are the sequences of their components ("/app" is <<"", "app">>):
\* the directories the process can be in, the first one at its start
StartDir == <<"", "app">>
Dirs == {StartDir, <<"", "tmp">>}
\* the call site of the entry points: a file under the start directory
SourceFile == <<"", "app", "cmd", "main.go">>
SourceLine == 14
\* the InitLog arguments and the event levels of the specification that
\* sends events below, at and above the level of the Logger
LevelsInitInputs == {<<WarnLevel, Prod>>, <<ErrorLevel, Dev>>}
LevelsEventLevels == {ZDebugLevel, ZWarnLevel, ZFatalLevel}
\* the InitLog arguments and the event level of the specification in which
\* the process changes its working directory
CwdInitInputs == {<<InfoLevel, Prod>>}
CwdEventLevels == {ZErrorLevel}

\* ------------------------------------------------------------------ state
VARIABLES
  pc,                 \* position of every goroutine
  arg,                \* arguments of the call a goroutine is in
  loc,                \* locals of the once.Do closure (logLevel, output, ip)
  once,               \* var once sync.Once: done flag and mutex holder
  Logger,             \* var Logger zerolog.Logger
  CallerMarshalFunc,  \* zerolog.CallerMarshalFunc (process global)
  evt,                \* the *zerolog.Event a goroutine holds
  proc,               \* "running" or "exited"
  nilWriterGuard,     \* the linked engine refuses a Logger without writer
  calls,              \* number of API calls made so far (bounded)
  out,                \* lines written per stream
  bodyRuns,           \* how often the closure of once.Do was entered
  published,          \* how often line 122 assigned Logger
  winner,             \* arguments of the call whose closure ran, and
                      \* whether that call has returned
  observed,           \* what a caller saw in Logger when InitLog returned
  ucState,            \* per field: "none", "started", "returned"
  ucPost,             \* fields whose UpdateContext call began after an
                      \* InitLog call had returned with Logger published
  cwd,                \* the working directory of the process
  cwdAtInit,          \* the working directory when line 115 was executed
  probes,             \* the results of the net.Dial calls made so far
  lastRec             \* the enrichment fields of the last line written

vars == <<pc, arg, loc, once, Logger, CallerMarshalFunc, evt, proc,
          nilWriterGuard, calls, out, bodyRuns, published, winner,
          observed, ucState, ucPost, cwd, cwdAtInit, probes, lastRec>>

\* -------------------------------------------------------------- helpers
\* zerolog.Level.String()
LevelString(l) ==
  CASE l = ZTraceLevel -> "trace"
    [] l = ZDebugLevel -> "debug"
    [] l = ZInfoLevel -> "info"
    [] l = ZWarnLevel -> "warn"
    [] l = ZErrorLevel -> "error"
    [] l = ZFatalLevel -> "fatal"
    [] l = ZPanicLevel -> "panic"
    [] OTHER -> ""

\* a package variable initialised with a Logger that writes to stderr
ZeroLogger_Stderr == [w |-> StderrWriter, level |-> ZDebugLevel, context |-> {}, hooks |-> {}]

\* var Logger zerolog.Logger: the zero value (no writer, level 0, no
\* context, no hooks)
ZeroLogger == [w |-> NilWriter, level |-> ZDebugLevel, context |-> {}, hooks |-> {}]

NoArg == [level |-> "", env |-> "", field |-> ""]
Keys(context) == {kv[1] : kv \in context}
NoLoc == [logLevel |-> ZDebugLevel, output |-> NilWriter, ip |-> "", ctx |-> {}, raced |-> FALSE]
NilEvent == [live |-> FALSE, level |-> ZDebugLevel, w |-> NilWriter, context |-> {}, hooks |-> {},
             after |-> {}, asked |-> ZDebugLevel, ret |-> FALSE, post |-> FALSE, pre |-> FALSE]
NoCaller == [file |-> <<>>, line |-> 0]
NoRec == [time |-> FALSE, caller |-> NoCaller, host_ip |-> "", post |-> FALSE, after |-> {}]
NoWinner == [level |-> "", env |-> "", returned |-> FALSE]
NoObs == [seen |-> FALSE, w |-> NilWriter, level |-> ZDebugLevel, differs |-> FALSE,
          afterUpdate |-> FALSE]

\* the switch of lines 83-100
ResolveLevel_DefaultDebug(logLevelStr) ==
  CASE logLevelStr = TraceLevel -> ZTraceLevel
    [] logLevelStr = DebugLevel -> ZDebugLevel
    [] logLevelStr = InfoLevel -> ZInfoLevel
    [] logLevelStr = WarnLevel -> ZWarnLevel
    [] logLevelStr = ErrorLevel -> ZErrorLevel
    [] logLevelStr = FatalLevel -> ZFatalLevel
    [] logLevelStr = PanicLevel -> ZPanicLevel
    [] OTHER -> ZDebugLevel

ResolveLevel(logLevelStr) ==
  CASE logLevelStr = TraceLevel -> ZTraceLevel
    [] logLevelStr = DebugLevel -> ZDebugLevel
    [] logLevelStr = InfoLevel -> ZInfoLevel
    [] logLevelStr = WarnLevel -> ZWarnLevel
    [] logLevelStr = ErrorLevel -> ZErrorLevel
    [] logLevelStr = FatalLevel -> ZFatalLevel
    [] logLevelStr = PanicLevel -> ZPanicLevel
    [] OTHER -> ZInfoLevel

\* lines 102-112: the level after the development override
DevLevel_NoOverride(appEnv, logLevel) == logLevel

DevLevel(appEnv, logLevel) == IF appEnv = Dev THEN ZTraceLevel ELSE logLevel

\* lines 102-112: the writer
SelectOutput_ProdOnly(appEnv) == IF appEnv = Prod THEN StderrWriter ELSE ConsoleStdoutWriter

SelectOutput(appEnv) == IF appEnv = Dev THEN ConsoleStdoutWriter ELSE StderrWriter

\* lines 122-128 without the IPAddr of line 126
NewLogger_NoHostIP(output, logLevel, ip) ==
  [w |-> output, level |-> logLevel, context |-> {}, hooks |-> {"timestamp", "caller"}]

\* lines 122-128: zerolog.New(output).Level(logLevel).With().Timestamp().
\* IPAddr("host_ip", ip).Caller().Logger(); Timestamp and Caller are hooks
\* of the logger, host_ip is a field of its context
NewLogger(output, logLevel, ip) ==
  [w |-> output, level |-> logLevel, context |-> {<<"host_ip", ip>>},
   hooks |-> {"timestamp", "caller"}]

\* zerolog's Logger.should: the level filter, and in engines that have it
\* the refusal of a Logger without writer
Should(l, lvl) ==
  /\ ~(nilWriterGuard /\ l.w = NilWriter)
  /\ lvl >= l.level

\* the stream a writer is bound to, and the format it writes
StreamOf(w) == IF w = ConsoleStdoutWriter THEN "stdout" ELSE "stderr"
FormatOf(w) == IF w = ConsoleStdoutWriter THEN "console" ELSE "json"

\* line 117: strings.TrimPrefix(file, curDir+"/") -- file without the
\* leading curDir+"/" when it begins with it, else file unchanged
TrimPrefix(file, curDir) ==
  IF Len(curDir) < Len(file) /\ SubSeq(file, 1, Len(curDir)) = curDir
  THEN SubSeq(file, Len(curDir) + 1, Len(file))
  ELSE file

\* lines 115-120: the function InitLog installs reads the working
\* directory (os.Getwd, line 116) each time it renders a caller; its
\* result is shortPath + ":" + line
ShortPath(file, line, curDir) == [file |-> TrimPrefix(file, curDir), line |-> line]

\* zerolog.CallerMarshalFunc(pc, file, line): the installed function, or
\* the engine's default, file + ":" + line
MarshalCaller(fn, file, line, curDir) ==
  IF fn = "shortPath" THEN ShortPath(file, line, curDir)
  ELSE [file |-> file, line |-> line]

\* the value of the host_ip field of a context ("" when it has none)
HostIP(context) ==
  IF "host_ip" \in {kv[1] : kv \in context}
  THEN (CHOOSE kv \in context : kv[1] = "host_ip")[2]
  ELSE ""

\* the enrichment fields of the line an event writes when it is sent: the
\* hooks of lines 125 and 127 run then (the caller hook renders the call
\* site with the function installed in zerolog.CallerMarshalFunc), host_ip
\* is in the context the event copied.  Kept with the line: whether its
\* event was created after initialization, and the UpdateContext calls
\* that had returned by then.
Record(e, fn, curDir) ==
  [time |-> "timestamp" \in e.hooks,
   caller |-> IF "caller" \in e.hooks
              THEN MarshalCaller(fn, SourceFile, SourceLine, curDir)
              ELSE NoCaller,
   host_ip |-> HostIP(e.context),
   post |-> e.post, after |-> e.after]

\* the values a read of the package variable Logger by goroutine p can
\* yield: while another goroutine is executing the assignment of line 122
\* the unsynchronised read may see each field before or after it
ReadLogger(p) ==
  IF \E q \in Goroutines \ {p} : pc[q] = "publishing"
  THEN LET q == CHOOSE q \in Goroutines \ {p} : pc[q] = "publishing"
           new == NewLogger(loc[q].output, loc[q].logLevel, loc[q].ip)
       IN  { [w |-> w, level |-> lv, context |-> c, hooks |-> h] :
               w \in {Logger.w, new.w}, lv \in {Logger.level, new.level},
               c \in {Logger.context, new.context}, h \in {Logger.hooks, new.hooks} }
  ELSE {Logger}

\* sync.Once.Do: the fast path reads the done flag
OnceDoneSeen(o) == o.done

\* sync.Once.doSlow: the mutex is free
OnceLockFree_NoMutex(o) == TRUE

OnceLockFree(o) == o.m = 0

\* sync.Once.doSlow: under the mutex, the closure runs only if done is
\* still unset
OnceMustRun_NoRecheck(o) == TRUE

OnceMustRun(o) == ~o.done

\* sync.Once.doSlow: the deferred done.Store(1) and Unlock
OnceRelease_NotDone(o) == [done |-> FALSE, m |-> 0]

OnceRelease(o) == [done |-> TRUE, m |-> 0]

\* ------------------------------------------------------------------- Init
Init ==
  /\ pc = [p \in Goroutines |-> "idle"]
  /\ arg = [p \in Goroutines |-> NoArg]
  /\ loc = [p \in Goroutines |-> NoLoc]
  /\ once = [done |-> FALSE, m |-> 0]
  /\ Logger = ZeroLogger
  /\ CallerMarshalFunc = "default"
  /\ evt = [p \in Goroutines |-> NilEvent]
  /\ proc = "running"
  /\ nilWriterGuard \in BOOLEAN
  /\ calls = 0
  /\ out = [s \in {"stdout", "stderr"} |-> 0]
  /\ bodyRuns = 0
  /\ published = 0
  /\ winner = NoWinner
  /\ observed = [p \in Goroutines |-> NoObs]
  /\ ucState = [f \in Fields |-> "none"]
  /\ ucPost = {}
  /\ cwd = StartDir
  /\ cwdAtInit = <<>>
  /\ probes = <<>>
  /\ lastRec = NoRec

\* what the caller of a returning InitLog(logLevelStr, appEnv) finds in
\* Logger; whether both its arguments differ from those of the call whose
\* closure ran; whether an UpdateContext call made after initialization
\* had returned before
Observe(logLevelStr, appEnv) ==
  [seen |-> TRUE, w |-> Logger.w, level |-> Logger.level,
   differs |-> logLevelStr # winner.level /\ appEnv # winner.env,
   afterUpdate |-> \E f \in ucPost : ucState[f] = "returned"]

\* a call returns to its caller: the goroutine is idle again
Return(p) ==
  /\ pc' = [pc EXCEPT ![p] = "idle"]
  /\ arg' = [arg EXCEPT ![p] = NoArg]

\* ---------------------------------------------------------------- InitLog
\* lines 79-80: InitLog(logLevelStr, appEnv) enters once.Do, whose fast
\* path loads the done flag: set, InitLog returns at once; unset, the
\* caller goes on to doSlow
InitLog(p, logLevelStr, appEnv) ==
  /\ proc = "running" /\ pc[p] = "idle" /\ calls < MaxCalls
  /\ calls' = calls + 1
  /\ IF OnceDoneSeen(once)
     THEN /\ observed' = [observed EXCEPT ![p] = Observe(logLevelStr, appEnv)]
          /\ UNCHANGED <<pc, arg>>
     ELSE /\ pc' = [pc EXCEPT ![p] = "once_slow"]
          /\ arg' = [arg EXCEPT ![p] = [level |-> logLevelStr, env |-> appEnv, field |-> ""]]
          /\ UNCHANGED observed
  /\ UNCHANGED <<loc, once, Logger, CallerMarshalFunc, evt, proc, nilWriterGuard,
                 out, bodyRuns, published, winner, ucState, ucPost,
                 cwd, cwdAtInit, probes, lastRec>>

\* line 80, once.doSlow: wait for the mutex, then run the closure if done
\* is still unset, else unlock and return
OnceSlow(p) ==
  /\ proc = "running" /\ pc[p] = "once_slow"
  /\ OnceLockFree(once)
  /\ IF OnceMustRun(once)
     THEN /\ once' = [once EXCEPT !.m = p]
          /\ pc' = [pc EXCEPT ![p] = "resolve"]
          /\ bodyRuns' = bodyRuns + 1
          /\ winner' = [level |-> arg[p].level, env |-> arg[p].env, returned |-> FALSE]
          /\ UNCHANGED <<arg, observed>>
     ELSE /\ Return(p)
          /\ observed' = [observed EXCEPT ![p] = Observe(arg[p].level, arg[p].env)]
          /\ UNCHANGED <<once, bodyRuns, winner>>
  /\ UNCHANGED <<loc, Logger, CallerMarshalFunc, evt, proc, nilWriterGuard,
                 calls, out, published, ucState, ucPost,
                 cwd, cwdAtInit, probes, lastRec>>

\* lines 81-100: the switch over logLevelStr
ResolveStep(p) ==
  /\ proc = "running" /\ pc[p] = "resolve"
  /\ loc' = [loc EXCEPT ![p].logLevel = ResolveLevel(arg[p].level)]
  /\ pc' = [pc EXCEPT ![p] = "select_output"]
  /\ UNCHANGED <<arg, once, Logger, CallerMarshalFunc, evt, proc, nilWriterGuard,
                 calls, out, bodyRuns, published, winner, observed, ucState, ucPost,
                 cwd, cwdAtInit, probes, lastRec>>

\* lines 102-112: stderr by default; in dev, trace and the console writer
OutputStep(p) ==
  /\ proc = "running" /\ pc[p] = "select_output"
  /\ loc' = [loc EXCEPT ![p].output = SelectOutput(arg[p].env),
                        ![p].logLevel = DevLevel(arg[p].env, loc[p].logLevel)]
  /\ pc' = [pc EXCEPT ![p] = "install_formatter"]
  /\ UNCHANGED <<arg, once, Logger, CallerMarshalFunc, evt, proc, nilWriterGuard,
                 calls, out, bodyRuns, published, winner, observed, ucState, ucPost,
                 cwd, cwdAtInit, probes, lastRec>>

\* lines 114-120: zerolog.CallerMarshalFunc = func(...)
InstallCallerMarshalFunc(p) ==
  /\ proc = "running" /\ pc[p] = "install_formatter"
  /\ CallerMarshalFunc' = "shortPath"
  /\ cwdAtInit' = cwd
  /\ pc' = [pc EXCEPT ![p] = "probe"]
  /\ UNCHANGED <<arg, loc, once, Logger, evt, proc, nilWriterGuard,
                 calls, out, bodyRuns, published, winner, observed, ucState, ucPost,
                 cwd, probes, lastRec>>

\* line 69 (getLocalIP, called from line 126): net.Dial reports a local
\* address or an error
Dial(p, r) ==
  /\ proc = "running" /\ pc[p] = "probe"
  /\ probes' = Append(probes, r)
  /\ IF r = "error"
     THEN /\ pc' = [pc EXCEPT ![p] = "dial_failed"]
          /\ UNCHANGED loc
     ELSE /\ loc' = [loc EXCEPT ![p].ip = r]
          /\ pc' = [pc EXCEPT ![p] = "publishing"]
  /\ UNCHANGED <<arg, once, Logger, CallerMarshalFunc, evt, proc, nilWriterGuard,
                 calls, out, bodyRuns, published, winner, observed, ucState, ucPost,
                 cwd, cwdAtInit, lastRec>>

\* lines 70-72: Logger.Fatal().Err(err) -- a fatal event is asked of the
\* still unpublished Logger and is never sent.  An engine that refuses the
\* event (Should is false) runs the fatal hook, os.Exit(1), on the spot;
\* otherwise the event is built, dropped, and getLocalIP goes on.
FatalOnDialError(p) ==
  /\ proc = "running" /\ pc[p] = "dial_failed"
  /\ \E l \in ReadLogger(p) :
        IF Should(l, ZFatalLevel)
        THEN /\ pc' = [pc EXCEPT ![p] = "defer_close"]
             /\ UNCHANGED proc
        ELSE /\ proc' = "exited"
             /\ UNCHANGED pc
  /\ UNCHANGED <<arg, loc, once, Logger, CallerMarshalFunc, evt, nilWriterGuard,
                 calls, out, bodyRuns, published, winner, observed, ucState, ucPost,
                 cwd, cwdAtInit, probes, lastRec>>

\* line 73: defer conn.Close() with conn == nil: nil-pointer panic
DeferClose(p) ==
  /\ proc = "running" /\ pc[p] = "defer_close"
  /\ pc' = [pc EXCEPT ![p] = "once_unwind"]
  /\ UNCHANGED <<arg, loc, once, Logger, CallerMarshalFunc, evt, proc, nilWriterGuard,
                 calls, out, bodyRuns, published, winner, observed, ucState, ucPost,
                 cwd, cwdAtInit, probes, lastRec>>

\* line 80, once.doSlow while the panic unwinds: the deferred
\* done.Store(1) and Unlock run, the panic goes on to InitLog's caller
OnceUnwind(p) ==
  /\ proc = "running" /\ pc[p] = "once_unwind"
  /\ once' = OnceRelease(once)
  /\ pc' = [pc EXCEPT ![p] = "panicked"]
  /\ arg' = [arg EXCEPT ![p] = NoArg]
  /\ loc' = [loc EXCEPT ![p] = NoLoc]
  /\ UNCHANGED <<Logger, CallerMarshalFunc, evt, proc, nilWriterGuard,
                 calls, out, bodyRuns, published, winner, observed, ucState, ucPost,
                 cwd, cwdAtInit, probes, lastRec>>

\* lines 122-128: Logger = zerolog.New(output)...Logger().  A context
\* written by an UpdateContext that overlapped the assignment may survive it.
Publish(p) ==
  /\ proc = "running" /\ pc[p] = "publishing"
  /\ LET new == NewLogger(loc[p].output, loc[p].logLevel, loc[p].ip)
     IN  \E c \in {new.context} \cup (IF loc[p].raced THEN {Logger.context} ELSE {}) :
           Logger' = [new EXCEPT !.context = c]
  /\ published' = published + 1
  /\ pc' = [pc EXCEPT ![p] = "once_done"]
  /\ UNCHANGED <<arg, loc, once, CallerMarshalFunc, evt, proc, nilWriterGuard,
                 calls, out, bodyRuns, winner, observed, ucState, ucPost,
                 cwd, cwdAtInit, probes, lastRec>>

\* lines 129-131: Logger.With().Caller() derives a context that is
\* dropped; the closure returns, doSlow stores done and unlocks, InitLog
\* returns
OnceDone(p) ==
  /\ proc = "running" /\ pc[p] = "once_done"
  /\ once' = OnceRelease(once)
  /\ Return(p)
  /\ loc' = [loc EXCEPT ![p] = NoLoc]
  /\ observed' = [observed EXCEPT ![p] = Observe(arg[p].level, arg[p].env)]
  /\ winner' = [winner EXCEPT !.returned = TRUE]
  /\ UNCHANGED <<Logger, CallerMarshalFunc, evt, proc, nilWriterGuard,
                 calls, out, bodyRuns, published, ucState, ucPost,
                 cwd, cwdAtInit, probes, lastRec>>

\* a panic reached the caller of the package: it recovers, or nobody does
\* and the runtime ends the process
Recover(p) ==
  /\ proc = "running" /\ pc[p] = "panicked"
  /\ pc' = [pc EXCEPT ![p] = "idle"]
  /\ UNCHANGED <<arg, loc, once, Logger, CallerMarshalFunc, evt, proc, nilWriterGuard,
                 calls, out, bodyRuns, published, winner, observed, ucState, ucPost,
                 cwd, cwdAtInit, probes, lastRec>>

Crash(p) ==
  /\ proc = "running" /\ pc[p] = "panicked"
  /\ proc' = "exited"
  /\ UNCHANGED <<pc, arg, loc, once, Logger, CallerMarshalFunc, evt, nilWriterGuard,
                 calls, out, bodyRuns, published, winner, observed, ucState, ucPost,
                 cwd, cwdAtInit, probes, lastRec>>

\* ---------------------------------------------------------- UpdateContext
\* an InitLog call has returned
InitLogReturned == \E q \in Goroutines : observed[q].seen

\* an InitLog call has returned and left the Logger published
InitLogCompleted == published > 0 /\ InitLogReturned

\* lines 143-144: Logger.UpdateContext(update) -- the engine copies the
\* Logger, hands the copy's context to update (which adds field f) ...
UpdateContextRead(p, f) ==
  /\ proc = "running" /\ pc[p] = "idle" /\ calls < MaxCalls
  /\ ucState[f] = "none"
  /\ calls' = calls + 1
  /\ \E l \in ReadLogger(p) :
        loc' = [loc EXCEPT ![p].ctx = l.context \cup {<<f, "v">>}]
  /\ arg' = [arg EXCEPT ![p] = [level |-> "", env |-> "", field |-> f]]
  /\ pc' = [pc EXCEPT ![p] = "uc_write"]
  /\ ucState' = [ucState EXCEPT ![f] = "started"]
  /\ ucPost' = IF InitLogCompleted THEN ucPost \cup {f} ELSE ucPost
  /\ UNCHANGED <<once, Logger, CallerMarshalFunc, evt, proc, nilWriterGuard,
                 out, bodyRuns, published, winner, observed,
                 cwd, cwdAtInit, probes, lastRec>>

\* lines 144-145: ... and stores the returned context into Logger; the
\* call returns.  No lock is taken between the read and this write.
UpdateContextWrite(p) ==
  /\ proc = "running" /\ pc[p] = "uc_write"
  /\ Logger' = [Logger EXCEPT !.context = loc[p].ctx]
  /\ loc' = [q \in Goroutines |->
               IF q = p THEN NoLoc
               ELSE IF pc[q] = "publishing" THEN [loc[q] EXCEPT !.raced = TRUE]
               ELSE loc[q]]
  /\ ucState' = [ucState EXCEPT ![arg[p].field] = "returned"]
  /\ Return(p)
  /\ UNCHANGED <<once, CallerMarshalFunc, evt, proc, nilWriterGuard,
                 calls, out, bodyRuns, published, winner, observed, ucPost,
                 cwd, cwdAtInit, probes, lastRec>>

\* ------------------------------------------- level-scoped entry points
\* the fields of the UpdateContext calls that were made after
\* initialization and have returned (kept with an event to tell which
\* calls had returned before the event was created; an event also keeps
\* the level it was asked at, and whether it was created after an InitLog
\* call had returned, after one had returned with the Logger published,
\* or before any InitLog call)
ReturnedUpdates == {f \in ucPost : ucState[f] = "returned"}

\* no InitLog call has been made yet
NoInitLogYet == bodyRuns = 0 /\ \A q \in Goroutines : pc[q] # "once_slow"

\* lines 150-194: Trace() ... Panic() return Logger.<Level>().  The engine
\* copies the logger's writer, context and hooks into the event when the
\* event is created.  For a refused event it returns nil, after running
\* the hook of Fatal (os.Exit) or of Panic (panic).
StartEvent(p, lvl) ==
  /\ proc = "running" /\ pc[p] = "idle" /\ calls < MaxCalls
  /\ calls' = calls + 1
  /\ \E l \in ReadLogger(p) :
        IF Should(l, lvl)
        THEN /\ evt' = [evt EXCEPT ![p] = [live |-> TRUE, level |-> lvl, w |-> l.w,
                                           context |-> l.context, hooks |-> l.hooks,
                                           after |-> ReturnedUpdates, asked |-> lvl,
                                           ret |-> InitLogReturned,
                                           post |-> InitLogCompleted,
                                           pre |-> NoInitLogYet]]
             /\ pc' = [pc EXCEPT ![p] = "has_event"]
             /\ UNCHANGED proc
        ELSE IF lvl = ZFatalLevel
        THEN /\ proc' = "exited"
             /\ UNCHANGED <<pc, evt>>
        ELSE IF lvl = ZPanicLevel
        THEN /\ pc' = [pc EXCEPT ![p] = "panicked"]
             /\ UNCHANGED <<proc, evt>>
        ELSE /\ evt' = [evt EXCEPT ![p] = [NilEvent EXCEPT !.asked = lvl,
                                                          !.ret = InitLogReturned,
                                                          !.post = InitLogCompleted,
                                                          !.pre = NoInitLogYet]]
             /\ pc' = [pc EXCEPT ![p] = "has_event"]
             /\ UNCHANGED proc
  /\ UNCHANGED <<arg, loc, once, Logger, CallerMarshalFunc, nilWriterGuard,
                 out, bodyRuns, published, winner, observed, ucState, ucPost,
                 cwd, cwdAtInit, probes, lastRec>>

\* sending the event of p writes a line
Emits(p) == evt[p].live /\ evt[p].w # NilWriter

\* the caller sends the event (Msg): a nil event does nothing; an event
\* without writer writes nothing, and the engine either skips the write
\* or dereferences the nil writer; otherwise one line is written.  Then
\* the hook of a fatal event exits, the hook of a panic event panics.
Msg(p) ==
  /\ proc = "running" /\ pc[p] = "has_event"
  /\ evt' = [evt EXCEPT ![p] = NilEvent]
  /\ out' = IF Emits(p) THEN [out EXCEPT ![StreamOf(evt[p].w)] = @ + 1] ELSE out
  /\ lastRec' = IF Emits(p) THEN Record(evt[p], CallerMarshalFunc, cwd) ELSE lastRec
  /\ \E deref \in (IF evt[p].live /\ evt[p].w = NilWriter THEN BOOLEAN ELSE {FALSE}) :
       IF ~evt[p].live
       THEN /\ pc' = [pc EXCEPT ![p] = "idle"]
            /\ UNCHANGED proc
       ELSE IF deref
       THEN /\ pc' = [pc EXCEPT ![p] = "panicked"]
            /\ UNCHANGED proc
       ELSE IF evt[p].level = ZFatalLevel
       THEN /\ proc' = "exited"
            /\ UNCHANGED pc
       ELSE IF evt[p].level = ZPanicLevel
       THEN /\ pc' = [pc EXCEPT ![p] = "panicked"]
            /\ UNCHANGED proc
       ELSE /\ pc' = [pc EXCEPT ![p] = "idle"]
            /\ UNCHANGED proc
  /\ UNCHANGED <<arg, loc, once, Logger, CallerMarshalFunc, nilWriterGuard,
                 calls, bodyRuns, published, winner, observed, ucState, ucPost,
                 cwd, cwdAtInit, probes>>

\* the caller drops the event without sending it
DropEvent(p) ==
  /\ proc = "running" /\ pc[p] = "has_event"
  /\ evt' = [evt EXCEPT ![p] = NilEvent]
  /\ pc' = [pc EXCEPT ![p] = "idle"]
  /\ UNCHANGED <<arg, loc, once, Logger, CallerMarshalFunc, proc, nilWriterGuard,
                 calls, out, bodyRuns, published, winner, observed, ucState, ucPost,
                 cwd, cwdAtInit, probes, lastRec>>

\* the program changes the working directory of the process (os.Chdir)
Chdir(d) ==
  /\ proc = "running" /\ d # cwd
  /\ cwd' = d
  /\ UNCHANGED <<pc, arg, loc, once, Logger, CallerMarshalFunc, evt, proc, nilWriterGuard,
                 calls, out, bodyRuns, published, winner, observed, ucState, ucPost,
                 cwdAtInit, probes, lastRec>>

\* ------------------------------------------------------------------- Next
\* the steps inside InitLog, after the call
InitLogStep(p) ==
  \/ OnceSlow(p)
  \/ ResolveStep(p)
  \/ OutputStep(p)
  \/ InstallCallerMarshalFunc(p)
  \/ \E r \in DialResults : Dial(p, r)
  \/ FatalOnDialError(p)
  \/ DeferClose(p)
  \/ OnceUnwind(p)
  \/ Publish(p)
  \/ OnceDone(p)

\* goroutines that call InitLog, with every input
Next ==
  \E p \in Goroutines :
    \/ \E i \in InitInputs : InitLog(p, i[1], i[2])
    \/ InitLogStep(p)
    \/ Recover(p)
    \/ Crash(p)

Spec == Init /\ [][Next]_vars

\* goroutines that call InitLog, with every input, and the entry points
NextEmit ==
  \E p \in Goroutines :
    \/ \E i \in EmitInitInputs : InitLog(p, i[1], i[2])
    \/ InitLogStep(p)
    \/ Recover(p)
    \/ Crash(p)
    \/ \E lvl \in EmitEventLevels : StartEvent(p, lvl)
    \/ Msg(p)
    \/ DropEvent(p)

SpecEmit == Init /\ [][NextEmit]_vars

\* InitLog with a few inputs, UpdateContext, and the entry points
NextCtx ==
  \E p \in Goroutines :
    \/ \E i \in CtxInitInputs : InitLog(p, i[1], i[2])
    \/ InitLogStep(p)
    \/ Recover(p)
    \/ Crash(p)
    \/ \E f \in Fields : UpdateContextRead(p, f)
    \/ UpdateContextWrite(p)
    \/ \E lvl \in CtxEventLevels : StartEvent(p, lvl)
    \/ Msg(p)
    \/ DropEvent(p)

SpecCtx == Init /\ [][NextCtx]_vars

\* InitLog and the entry points at levels below, at and above the level
\* of the Logger
NextLevels ==
  \E p \in Goroutines :
    \/ \E i \in LevelsInitInputs : InitLog(p, i[1], i[2])
    \/ InitLogStep(p)
    \/ Recover(p)
    \/ Crash(p)
    \/ \E lvl \in LevelsEventLevels : StartEvent(p, lvl)
    \/ Msg(p)
    \/ DropEvent(p)

SpecLevels == Init /\ [][NextLevels]_vars

\* InitLog, the entry points, and a program that changes its working
\* directory
NextCwd ==
  \/ \E p \in Goroutines :
       \/ \E i \in CwdInitInputs : InitLog(p, i[1], i[2])
       \/ InitLogStep(p)
       \/ Recover(p)
       \/ Crash(p)
       \/ \E lvl \in CwdEventLevels : StartEvent(p, lvl)
       \/ Msg(p)
       \/ DropEvent(p)
  \/ \E d \in Dirs : Chdir(d)

SpecCwd == Init /\ [][NextCwd]_vars

TypeOK ==
  /\ pc \in [Goroutines -> {"idle", "once_slow", "resolve", "select_output",
                            "install_formatter", "probe", "dial_failed", "defer_close",
                            "once_unwind", "publishing", "once_done",
                            "panicked", "uc_write", "has_event"}]
  /\ proc \in {"running", "exited"}
  /\ Logger.w \in {NilWriter, StderrWriter, ConsoleStdoutWriter}
  /\ Logger.level \in ZLevels
  /\ calls \in 0..MaxCalls


\* ================================================================= claims
\* the name of the severity that InitLog is to give the Logger for a level
\* tag, as the package documents it: the tag itself, info for any other string
DocumentedLevel(tag) == IF tag \in LevelTags THEN tag ELSE "info"

\* the Logger is fully configured: writer, host_ip field and both hooks
FullyConfigured ==
  /\ Logger.w # NilWriter
  /\ "host_ip" \in Keys(Logger.context)
  /\ Logger.hooks = {"timestamp", "caller"}

\* C1: however many InitLog calls race, the closure of once.Do is entered
\* at most once and assigns Logger at most once; as soon as any call has
\* returned it has been entered exactly once, and when the call that ran
\* it has returned, Logger has been assigned exactly once.
C1_ConfiguredExactlyOnce ==
  /\ bodyRuns <= 1
  /\ published <= 1
  /\ (\E p \in Goroutines : observed[p].seen) => bodyRuns = 1
  /\ winner.returned => published = 1

\* two calls raced: one ran the closure to its end, the other waits in doSlow
C1_Witness ==
  \E p, q \in Goroutines :
    /\ p # q /\ pc[p] = "once_done" /\ pc[q] = "once_slow"
    /\ bodyRuns = 1 /\ published = 1

\* C2 (as claimed): in every state where some InitLog call has returned,
\* the Logger is fully configured.
C2_ReturnedImpliesConfigured ==
  (\E p \in Goroutines : observed[p].seen) => FullyConfigured

\* C3: when the call that ran the closure has returned, every caller that
\* has returned saw the writer and the level that Logger holds, and both
\* come from the arguments of that one call.
C3_OneCallDecides ==
  winner.returned =>
    /\ \A p \in Goroutines :
         observed[p].seen => observed[p].w = Logger.w /\ observed[p].level = Logger.level
    /\ Logger.w = (IF winner.env = Dev THEN ConsoleStdoutWriter ELSE StderrWriter)
    /\ LevelString(Logger.level) =
         (IF winner.env = Dev THEN "trace" ELSE DocumentedLevel(winner.level))

\* every goroutine has returned from InitLog, one of them from a call
\* whose level and environment both differ from the deciding call's
C3_Witness ==
  /\ winner.returned
  /\ \A p \in Goroutines : pc[p] = "idle" /\ observed[p].seen
  /\ \E p \in Goroutines : observed[p].differs

\* C4: once an InitLog call has returned, the only step that changes
\* Logger is the store of an UpdateContext call: no step of any InitLog
\* call, early or late, changes its writer, level, host_ip or the fields
\* added by UpdateContext.
C4_LaterInitLogKeepsLogger ==
  [][ ((\E q \in Goroutines : observed[q].seen) /\ Logger' # Logger)
        => \E p \in Goroutines : pc[p] = "uc_write" /\ pc'[p] = "idle" ]_vars

\* an InitLog call returned after an UpdateContext call that followed the
\* initialization had returned, and the field it added is still there
C4_Witness ==
  /\ FullyConfigured
  /\ \E p \in Goroutines : observed[p].seen /\ observed[p].afterUpdate
  /\ \E f \in ucPost : ucState[f] = "returned" /\ <<f, "v">> \in Logger.context

C6_NonDevResolvedLevelOnStderr ==
  /\ (winner.env # Dev /\ published > 0) =>
       /\ LevelString(Logger.level) = DocumentedLevel(winner.level)
       /\ Logger.w = StderrWriter
       /\ out["stdout"] = 0
  /\ ~(out["stdout"] > 0 /\ out["stderr"] > 0)

\* InitLog("verbose", "local") ran and a line was written to standard error
C6_Witness ==
  /\ winner.returned /\ winner.env = "local" /\ winner.level = "verbose"
  /\ Logger.level = ZInfoLevel
  /\ out["stderr"] > 0

\* C7: after the switch, logLevel is the engine level whose name is the
\* level tag for each of the seven tags, and info for any other string.
C7_LevelResolution ==
  \A p \in Goroutines :
    pc[p] = "select_output" =>
      LevelString(loc[p].logLevel) = DocumentedLevel(arg[p].level)

\* the switch has mapped an unknown tag to info
C7_Witness ==
  \E p \in Goroutines :
    pc[p] = "select_output" /\ arg[p].level = "verbose" /\ loc[p].logLevel = ZInfoLevel

\* C8 (as claimed): a failed probe ends the process at the probe; no
\* goroutine goes on to line 73, which uses the connection.
C8_ProbeFailureAbortsAtProbe ==
  \A p \in Goroutines : pc[p] # "defer_close"

\* C9 (as claimed): when two or more UpdateContext calls were made after
\* initialization and all have returned, the context holds the field of
\* each of them.
C9_NoLostUpdate ==
  ( /\ Cardinality(ucPost) >= 2
    /\ \A f \in Fields : ucState[f] # "none" => f \in ucPost /\ ucState[f] = "returned" )
  => \A f \in ucPost : <<f, "v">> \in Logger.context

\* C10 (as claimed, in the reading that asks least): a line whose event
\* was created -- and so also sent -- after an UpdateContext call made
\* after initialization had returned holds the field the call added; a line
\* holds the field of no call that had not begun when it was written; and
\* the write of the context leaves writer, level and hooks as they were.
C10_FieldInLaterRecords ==
  [][ /\ \A p \in Goroutines :
           (Msg(p) /\ Emits(p)) =>
             /\ \A f \in evt[p].after : f \in Keys(evt[p].context)
             /\ \A f \in Fields : f \in Keys(evt[p].context) => ucState[f] # "none"
      /\ \A p \in Goroutines :
           UpdateContextWrite(p) =>
             /\ Logger'.w = Logger.w /\ Logger'.level = Logger.level
             /\ Logger'.hooks = Logger.hooks ]_vars

\* the number of lines written so far
Lines == out["stdout"] + out["stderr"]

\* C11 (as claimed): only sending an event writes lines, so an event that
\* is never sent writes none; and sending an event that an entry point
\* returned after an InitLog call had returned writes exactly one line when
\* the level of the entry point is at or above the level of the Logger,
\* and none when it is below.
C11_OneLinePerFinalizedEvent ==
  [][ /\ (out' # out) => \E p \in Goroutines : Msg(p)
      /\ \A p \in Goroutines :
           (Msg(p) /\ evt[p].ret) =>
             Lines' - Lines = (IF evt[p].asked >= Logger.level THEN 1 ELSE 0) ]_vars

\* C12 (as claimed): the caller field of a line whose event was created
\* after InitLog completed is the call site's file without the working
\* directory the process had when InitLog installed the formatter, also
\* when the process has changed its working directory since.
C12_CallerStripsInitDir ==
  (lastRec.post /\ lastRec.caller # NoCaller) =>
    lastRec.caller.file = TrimPrefix(SourceFile, cwdAtInit)

\* every UpdateContext call made so far began after an InitLog call had
\* returned with the Logger published
UpdatesFollowInit == \A f \in Fields : ucState[f] # "none" => f \in ucPost

Unconfigured ==
  /\ Logger.w = ZeroLogger.w /\ Logger.level = ZeroLogger.level
  /\ Logger.hooks = ZeroLogger.hooks /\ "host_ip" \notin Keys(Logger.context)

\* C14: when the one probe has failed and its panic has left once.Do, the
\* guard is consumed and free, the closure has run once and is not run
\* again, no goroutine is inside it, Logger is still unconfigured (also
\* for every InitLog call that has returned since, and whatever
\* UpdateContext and the entry points do), and the caller formatter
\* installed before the probe is still installed.
C14_FailedProbeConsumesGuard ==
  ( /\ probes = <<"error">>
    /\ \A p \in Goroutines : pc[p] \notin {"dial_failed", "defer_close", "once_unwind"} )
  => /\ once.done /\ once.m = 0
     /\ bodyRuns = 1 /\ published = 0
     /\ \A p \in Goroutines :
          pc[p] \notin {"resolve", "select_output", "install_formatter", "probe",
                        "publishing", "once_done"}
     /\ Unconfigured
     /\ \A p \in Goroutines : observed[p].seen => observed[p].w = NilWriter
     /\ CallerMarshalFunc = "shortPath"

\* the probe failed, the caller recovered the panic, and two later InitLog
\* calls have returned
C14_Witness ==
  /\ probes = <<"error">> /\ proc = "running"
  /\ \A p \in Goroutines : pc[p] = "idle" /\ observed[p].seen
  /\ Unconfigured /\ CallerMarshalFunc = "shortPath"

\* C15: the only step that gives Logger a writer is the assignment of
\* line 122 inside InitLog; a call of an entry point or of UpdateContext
\* is a step of its own that leaves once, the closure and Logger alone;
\* an entry point called before any InitLog call gets an event without
\* writer and hooks (or no event); and the step that ends such an event,
\* sending it or dropping it, writes no line, also after a later InitLog
\* has chosen its stream.
C15_OnlyInitLogConfigures ==
  [][ /\ (Logger.w = NilWriter /\ Logger'.w # NilWriter)
           => \E p \in Goroutines : pc[p] = "publishing" /\ pc'[p] = "once_done"
      /\ \A p \in Goroutines :
           (pc[p] = "idle" /\ pc'[p] \in {"has_event", "uc_write"})
             => once' = once /\ bodyRuns' = bodyRuns /\ Logger' = Logger
      /\ \A p \in Goroutines :
           (pc[p] = "idle" /\ pc'[p] = "has_event" /\ NoInitLogYet)
             => evt'[p].pre /\ evt'[p].w = NilWriter /\ evt'[p].hooks = {}
      /\ \A p \in Goroutines :
           (pc[p] = "has_event" /\ pc'[p] # "has_event" /\ evt[p].pre) => out' = out ]_vars

\* a goroutine holds an event it got before any InitLog call, and an
\* InitLog call has since returned with the Logger published
C15_Witness ==
  \E p \in Goroutines :
    /\ pc[p] = "has_event" /\ evt[p].live /\ evt[p].pre
    /\ winner.returned /\ Logger.w # NilWriter

====
